---- MODULE Spec2Model ----
(***************************************************************************)
(* Model of bot.py: the Telegram bracket bot.                              *)
(*                                                                         *)
(* A Python str is a sequence of one-character strings, so that split,     *)
(* strip, lower and slicing are computed character by character.  The em   *)
(* dash U+2014 of render_pairs_text is the one-character token "EMDASH".   *)
(* An optional value (None or a value) is a sequence of length 0 or 1.     *)
(***************************************************************************)
EXTENDS Integers, Sequences, FiniteSets, Bags, TLC

VARIABLES
    file,    \* DATA_FILE: None while it does not exist, else Some(the dict in it)
    msg,     \* the update handled last: None, or Some([cmd, chat_id, text])
    reply,   \* what the handler of msg sent back
    arg,     \* argument of the function under test (function specifications)
    res,     \* None, or Some(its result)
    tasks,   \* the handler coroutines in flight on the event loop, a bag
    saves    \* the updates whose handler called save_db, in the order of the calls

vars == <<file, msg, reply, arg, res, tasks, saves>>

None == <<>>

Some(v) == <<v>>

-----------------------------------------------------------------------------
(* Python str primitives.                                                  *)

\* str.isspace() of one character, on the characters of the model.
IsSpace(ch) == ch \in {" ", "\n", "\t"}

\* str.lower() of one character, on the letters of the model.
LowerCh(ch) ==
    CASE ch = "A" -> "a"
      [] ch = "B" -> "b"
      [] ch = "C" -> "c"
      [] ch = "D" -> "d"
      [] ch = "E" -> "e"
      [] ch = "M" -> "m"
      [] ch = "R" -> "r"
      [] ch = "T" -> "t"
      [] ch = "W" -> "w"
      [] ch = "Y" -> "y"
      [] OTHER -> ch

\* str.lower()
Lower(s) == [i \in 1..Len(s) |-> LowerCh(s[i])]

\* str.replace(old, new) for one-character old and new.
Replace(s, old, new) == [i \in 1..Len(s) |-> IF s[i] = old THEN new ELSE s[i]]

RECURSIVE LStrip(_)
\* str.lstrip()
LStrip(s) == IF s # <<>> /\ IsSpace(Head(s)) THEN LStrip(Tail(s)) ELSE s

RECURSIVE RStrip(_)
\* str.rstrip()
RStrip(s) ==
    IF s # <<>> /\ IsSpace(s[Len(s)]) THEN RStrip(SubSeq(s, 1, Len(s) - 1)) ELSE s

\* str.strip()
Strip(s) == RStrip(LStrip(s))

RECURSIVE SplitFrom(_, _, _, _)
\* str.split(sep) for a one-character sep: the scan from position i, cur
\* being the piece under construction and acc the finished pieces.
SplitFrom(s, sep, i, st) ==
    IF i > Len(s) THEN Append(st.acc, st.cur)
    ELSE IF s[i] = sep
         THEN SplitFrom(s, sep, i + 1, [acc |-> Append(st.acc, st.cur), cur |-> <<>>])
         ELSE SplitFrom(s, sep, i + 1, [acc |-> st.acc, cur |-> Append(st.cur, s[i])])

\* str.split(sep): always one piece more than there are separators.
Split(s, sep) == SplitFrom(s, sep, 1, [acc |-> <<>>, cur |-> <<>>])

RECURSIVE SplitWSFrom(_, _, _)
\* str.split() without argument: runs of whitespace separate, no empty piece.
SplitWSFrom(s, i, st) ==
    IF i > Len(s)
    THEN IF st.cur = <<>> THEN st.acc ELSE Append(st.acc, st.cur)
    ELSE IF IsSpace(s[i])
         THEN SplitWSFrom(s, i + 1,
                  [acc |-> IF st.cur = <<>> THEN st.acc ELSE Append(st.acc, st.cur),
                   cur |-> <<>>])
         ELSE SplitWSFrom(s, i + 1, [acc |-> st.acc, cur |-> Append(st.cur, s[i])])

SplitWS(s) == SplitWSFrom(s, 1, [acc |-> <<>>, cur |-> <<>>])

RECURSIVE Find(_, _, _)
\* Index of the first ch in s at or after i, 0 when there is none.
Find(s, ch, i) ==
    IF i > Len(s) THEN 0 ELSE IF s[i] = ch THEN i ELSE Find(s, ch, i + 1)

\* str.partition(" ")[2]: what follows the first space, "" without a space.
PartitionTail(s) ==
    LET k == Find(s, " ", 1) IN IF k = 0 THEN <<>> ELSE SubSeq(s, k + 1, Len(s))

RECURSIVE Join(_, _)
\* sep.join(parts)
Join(parts, sep) ==
    IF parts = <<>> THEN <<>>
    ELSE IF Len(parts) = 1 THEN parts[1]
    ELSE parts[1] \o sep \o Join(Tail(parts), sep)

\* One decimal digit as a character.
DigitCh(d) == <<"0", "1", "2", "3", "4", "5", "6", "7", "8", "9">>[d + 1]

RECURSIVE NatToStr(_)
\* str(n) for n >= 0, as f-strings and str() format it.
NatToStr(n) == IF n < 10 THEN <<DigitCh(n)>> ELSE Append(NatToStr(n \div 10), DigitCh(n % 10))

\* str(n) for any integer.
IntToStr(n) == IF n < 0 THEN <<"-">> \o NatToStr(-n) ELSE NatToStr(n)

-----------------------------------------------------------------------------
(* Bracket logic.                                                          *)

BYE == <<"B", "Y", "E">>

RECURSIVE bit_length(_)
\* int.bit_length() for n >= 0.
bit_length(n) == IF n = 0 THEN 0 ELSE 1 + bit_length(n \div 2)

RECURSIVE shl1(_)
\* 1 << k
shl1(k) == IF k = 0 THEN 1 ELSE 2 * shl1(k - 1)

\* Variant: the bit length of n instead of n - 1.
next_power_of_two_of_n(n) == IF n < 1 THEN 1 ELSE shl1(bit_length(n))

next_power_of_two(n) == IF n < 1 THEN 1 ELSE shl1(bit_length(n - 1))

\* range(0, n, 2) as a sequence.
EvenRange(n) == [k \in 1..((n + 1) \div 2) |-> 2 * (k - 1)]

build_first_round(teams) ==
    LET idx == EvenRange(Len(teams))
    IN  [k \in 1..Len(idx) |->
            LET i == idx[k]
                a == teams[i + 1]
                b == IF i + 1 < Len(teams) THEN teams[i + 2] ELSE BYE
            IN  <<a, b>>]

\* f"Winner of R{r}M{m}"
WinnerOf(r, m) ==
    <<"W", "i", "n", "n", "e", "r", " ", "o", "f", " ", "R">>
        \o NatToStr(r) \o <<"M">> \o NatToStr(m)

\* Variant: the loop index itself as the first match number.
next_round_from_zero(rounds, matches_in_round) ==
    LET idx == EvenRange(matches_in_round)
    IN  [k \in 1..Len(idx) |->
            LET i  == idx[k]
                m1 == i
                m2 == i + 1
            IN  <<WinnerOf(Len(rounds), m1), WinnerOf(Len(rounds), m2)>>]

\* One pass of the while loop body: the placeholder round after `rounds`.
next_round(rounds, matches_in_round) ==
    LET idx == EvenRange(matches_in_round)
    IN  [k \in 1..Len(idx) |->
            LET i  == idx[k]
                m1 == i + 1
                m2 == i + 2
            IN  <<WinnerOf(Len(rounds), m1), WinnerOf(Len(rounds), m2)>>]

RECURSIVE placeholder_rounds(_, _)
\* The while loop: runs while the last round built has more than one match.
placeholder_rounds(rounds, matches_in_round) ==
    IF matches_in_round > 1
    THEN LET nr == next_round(rounds, matches_in_round)
         IN  placeholder_rounds(Append(rounds, nr), Len(nr))
    ELSE rounds

\* ["BYE"] * byes
Repeat(v, k) == [i \in 1..k |-> v]

\* Variant: no BYE padding up to the power of two.
build_full_bracket_unpadded(seed_teams) ==
    LET r1 == build_first_round(seed_teams)
    IN  placeholder_rounds(<<r1>>, Len(r1))

build_full_bracket(seed_teams) ==
    LET n      == Len(seed_teams)
        target == next_power_of_two(n)
        byes   == target - n
        teams  == seed_teams \o Repeat(BYE, byes)
        r1     == build_first_round(teams)
    IN  placeholder_rounds(<<r1>>, Len(r1))

-----------------------------------------------------------------------------
(* Rendering.                                                              *)

\* f"*Round {round_no}*:"
RoundHeader(round_no) ==
    <<"*", "R", "o", "u", "n", "d", " ">> \o NatToStr(round_no) \o <<"*", ":">>

\* f"M{idx}. {a} EMDASH {b}"
MatchLine(idx, pair) ==
    <<"M">> \o NatToStr(idx) \o <<".", " ">> \o pair[1]
        \o <<" ", "EMDASH", " ">> \o pair[2]

render_pairs_text(pairs, round_no) ==
    LET lines == <<RoundHeader(round_no)>>
                    \o [idx \in 1..Len(pairs) |-> MatchLine(idx, pairs[idx])]
    IN  Join(lines, <<"\n">>)

RECURSIVE tree_parts(_, _)
\* The parts list of render_bracket_tree from round i on.
tree_parts(rounds, i) ==
    IF i > Len(rounds) THEN <<>>
    ELSE <<render_pairs_text(rounds[i], i)>>
            \o (IF i # Len(rounds) THEN <<(<<>>)>> ELSE <<>>)
            \o tree_parts(rounds, i + 1)

render_bracket_tree(rounds) == Join(tree_parts(rounds, 1), <<"\n">>)

-----------------------------------------------------------------------------
(* Team registry.                                                          *)

RECURSIVE dedupe_case_sensitive(_, _, _)
\* Variant: the seen set holds the names as spelled.
dedupe_case_sensitive(teams, seen, uniq) ==
    IF teams = <<>> THEN uniq
    ELSE LET t == Head(teams)
         IN  IF t \notin seen
             THEN dedupe_case_sensitive(Tail(teams), seen \cup {t}, Append(uniq, t))
             ELSE dedupe_case_sensitive(Tail(teams), seen, uniq)

RECURSIVE dedupe(_, _, _)
\* The loop of _normalize_teams over teams, with its seen set and uniq list.
dedupe(teams, seen, uniq) ==
    IF teams = <<>> THEN uniq
    ELSE LET t == Head(teams)
         IN  IF Lower(t) \notin seen
             THEN dedupe(Tail(teams), seen \cup {Lower(t)}, Append(uniq, t))
             ELSE dedupe(Tail(teams), seen, uniq)

\* Variant: a later spelling of a name replaces the one kept so far.
_normalize_teams_keep_last(raw) ==
    LET pieces == Split(Replace(Replace(raw, "\n", ";"), ",", ";"), ";")
        parts  == [i \in 1..Len(pieces) |-> Strip(pieces[i])]
        teams  == SelectSeq(parts, LAMBDA p : p # <<>>)
        uniq   == dedupe(teams, {}, <<>>)
    IN  [k \in 1..Len(uniq) |->
            LET same == {i \in 1..Len(teams) : Lower(teams[i]) = Lower(uniq[k])}
            IN  teams[CHOOSE i \in same : \A j \in same : j <= i]]

_normalize_teams(raw) ==
    LET pieces == Split(Replace(Replace(raw, "\n", ";"), ",", ";"), ";")
        parts  == [i \in 1..Len(pieces) |-> Strip(pieces[i])]
        teams  == SelectSeq(parts, LAMBDA p : p # <<>>)
    IN  dedupe(teams, {}, <<>>)

\* Variant: every incoming name is appended.
append_new_unfiltered(teams, new) == teams \o new

\* The append loop of cmd_add: existing_low is computed once, before the loop.
append_new(teams, new) ==
    LET existing_low == {Lower(teams[i]) : i \in 1..Len(teams)}
    IN  teams \o SelectSeq(new, LAMBDA t : Lower(t) \notin existing_low)

-----------------------------------------------------------------------------
(* The seeded shuffle.                                                     *)

SeedMin == 100000

SeedMax == 999999

\* The seeds the model draws, out of SeedMin..SeedMax.
Seeds == {SeedMin, SeedMin + 1, SeedMax}

\* The k-th number (k >= 0) that random.Random(seed) hands to shuffle, below
\* n: the generator is a fixed function of the seed and of the calls made.
randbelow(seed, k, n) == ((seed \div (k + 1)) + k) % n

\* x[i], x[j] = x[j], x[i] on 0-based positions.
Swap(x, i, j) == [x EXCEPT ![i + 1] = x[j + 1], ![j + 1] = x[i + 1]]

RECURSIVE shuffle_from(_, _, _)
\* random.shuffle: for i in reversed(range(1, len(x))), swap x[i] with
\* x[randbelow(i + 1)].
shuffle_from(seed, x, i) ==
    IF i < 1 THEN x
    ELSE LET k == (Len(x) - 1) - i
             j == randbelow(seed, k, i + 1)
         IN  shuffle_from(seed, Swap(x, i, j), i - 1)

\* random.Random(seed).shuffle(x): the list as it is afterwards.
shuffle(seed, x) == shuffle_from(seed, x, Len(x) - 1)

-----------------------------------------------------------------------------
(* Storage helpers.                                                        *)

\* The empty dict {}.
EmptyDict == <<>>

\* What json.load makes of the text in the file: an object with its members,
\* something that is no object (the array []), or nothing, the text being no
\* JSON.
JsonObject(members) == [json |-> "object", members |-> members]

JsonArray == [json |-> "array"]

NotJson == [json |-> "invalid"]

\* load_db: {} when the file does not exist or json.load raises, else what
\* json.load returns.
load_db ==
    IF file = None THEN JsonObject(EmptyDict)
    ELSE IF file[1].json = "invalid" THEN JsonObject(EmptyDict)
    ELSE file[1]

\* save_db(db): the file afterwards (written to a temporary, then renamed).
save_db(db) == Some(JsonObject(db))

\* The record get_chat stores for a chat it has not seen.
NewChat == [name |-> None, teams |-> <<>>, bracket |-> None]

\* get_chat raises TypeError when db is no dict: db[key] = {...} on a list.
get_chat_raises(db) == db.json # "object"

\* Variant: a dict with the chat's record and no other.
get_chat_alone(db, chat_id) ==
    LET key == IntToStr(chat_id)
    IN  key :> (IF key \in DOMAIN db.members THEN db.members[key] ELSE NewChat)

\* get_chat(db, chat_id): the dict db as get_chat leaves it; the chat is
\* db[key].
get_chat(db, chat_id) ==
    LET key == IntToStr(chat_id)
    IN  IF key \notin DOMAIN db.members THEN (key :> NewChat) @@ db.members
        ELSE db.members

\* chat[field] = v
Assign(chat, field, v) ==
    [k \in DOMAIN chat \cup {field} |-> IF k = field THEN v ELSE chat[k]]

\* chat.get(field)
Get(chat, field) == IF field \in DOMAIN chat THEN chat[field] ELSE None

\* db after chat[field] = ... assignments that make the chat's record rec.
SetChat(db, chat_id, rec) == [db EXCEPT ![IntToStr(chat_id)] = rec]

-----------------------------------------------------------------------------
(* Updates and their handlers.                                             *)

\* The chats that talk to the bot.
Chats == {1}

\* The text of a command: "/" + cmd, then the rest of the message.
CommandText(cmd, rest) == <<"/">> \o cmd \o rest

NewCmd == <<"n", "e", "w">>

AddCmd == <<"a", "d", "d">>

\* context.args: the whitespace-separated words after the command.
context_args(text) == Tail(SplitWS(text))

\* f"Tournament {datetime.utcnow():%Y-%m-%d}", on the day of the model.
DefaultName ==
    <<"T", "o", "u", "r", "n", "a", "m", "e", "n", "t", " ",
      "2", "0", "2", "4", "-", "0", "1", "-", "0", "1">>

\* What follows "/new" in the messages of the model.
NewRests == { <<>>, <<" ", "C", "u", "p", " ", " ", "1">> }

\* What follows "/add" in the messages of the model.
AddRests ==
    { <<>>,
      <<" ">>,
      <<" ", ";", " ", ",">>,
      <<"\n", "a", ";", "b">>,
      <<" ", "a", ";", " ", "b">>,
      <<" ", "A", ";", " ", "c">>,
      <<" ", "b", ",", "B", "\n", "B", "Y", "E">> }

Sent(cmd, chat_id, text) == Some([cmd |-> cmd, chat_id |-> chat_id, text |-> text])

\* The handler raises: nothing is saved and nothing is sent back.
Raised(error) ==
    /\ reply' = [kind |-> "Raised", error |-> error]
    /\ UNCHANGED file

cmd_start(chat_id) ==
    /\ msg' = Sent("start", chat_id, CommandText(<<"s", "t", "a", "r", "t">>, <<>>))
    /\ reply' = [kind |-> "Intro"]
    /\ UNCHANGED file

cmd_help(chat_id) ==
    /\ msg' = Sent("help", chat_id, CommandText(<<"h", "e", "l", "p">>, <<>>))
    /\ reply' = [kind |-> "Intro"]
    /\ UNCHANGED file

\* Variant: the bracket of the tournament before is kept.
new_chat_keeping_bracket(chat, name) ==
    Assign(Assign(chat, "name", Some(name)), "teams", <<>>)

\* The chat's record after the three assignments of cmd_new.
new_chat(chat, name) ==
    Assign(Assign(Assign(chat, "name", Some(name)), "teams", <<>>), "bracket", None)

\* Variant: no default label when no name is given.
new_name_without_default(text) == Strip(Join(context_args(text), <<" ">>))

\* " ".join(context.args).strip() or the default label.
new_name(text) ==
    LET joined == Strip(Join(context_args(text), <<" ">>))
    IN  IF joined # <<>> THEN joined ELSE DefaultName

cmd_new(chat_id, text) ==
    LET db     == get_chat(load_db, chat_id)
        chat   == db[IntToStr(chat_id)]
        name   == new_name(text)
    IN  /\ msg' = Sent("new", chat_id, text)
        /\ IF get_chat_raises(load_db) THEN Raised("TypeError")
           ELSE /\ file' = save_db(SetChat(db, chat_id, new_chat(chat, name)))
                /\ reply' = [kind |-> "Created", name |-> name]

\* Variant: adding teams also drops the bracket drawn before.
add_chat_dropping_bracket(chat, new) ==
    [chat EXCEPT !.teams = append_new(chat.teams, new), !.bracket = None]

\* The chat's record after the append loop of cmd_add.
add_chat(chat, new) == [chat EXCEPT !.teams = append_new(chat.teams, new)]

cmd_add(chat_id, text) ==
    LET db   == get_chat(load_db, chat_id)
        chat == db[IntToStr(chat_id)]
        raw  == PartitionTail(text)
        new  == _normalize_teams(raw)
    IN  /\ msg' = Sent("add", chat_id, text)
        /\ IF get_chat_raises(load_db) THEN Raised("TypeError")
           ELSE IF context_args(text) = <<>> /\ Strip(PartitionTail(text)) = <<>>
           THEN /\ reply' = [kind |-> "Usage"]
                /\ UNCHANGED file
           ELSE IF new = <<>>
           THEN /\ reply' = [kind |-> "EmptyInput"]
                /\ UNCHANGED file
           ELSE IF "teams" \notin DOMAIN chat THEN Raised("KeyError")
           ELSE LET before == Len(chat.teams)
                    chat2  == add_chat(chat, new)
                    added  == Len(chat2.teams) - before
                IN  /\ file' = save_db(SetChat(db, chat_id, chat2))
                    /\ reply' = [kind |-> "Added", added |-> added,
                                 total |-> Len(chat2.teams)]

cmd_list(chat_id) ==
    LET db    == get_chat(load_db, chat_id)
        chat  == db[IntToStr(chat_id)]
        teams == chat.teams
    IN  /\ msg' = Sent("list", chat_id, CommandText(<<"l", "i", "s", "t">>, <<>>))
        /\ IF get_chat_raises(load_db) THEN Raised("TypeError")
           ELSE IF "teams" \notin DOMAIN chat THEN Raised("KeyError")
           ELSE /\ reply' = IF teams = <<>>
                            THEN [kind |-> "EmptyList"]
                            ELSE [kind |-> "Teams", count |-> Len(teams), teams |-> teams]
                /\ UNCHANGED file

\* Variant: the seed recorded is the next one, not the one shuffled with.
draw_chat_other_seed(chat, seed) ==
    LET shuffled == shuffle(seed, chat.teams)
        rounds   == build_full_bracket(shuffled)
        recorded == IF seed = SeedMax THEN SeedMin ELSE seed + 1
    IN  Assign([chat EXCEPT !.teams = shuffled], "bracket",
               Some([seed |-> recorded, rounds |-> rounds]))

\* The chat's record after the shuffle and the bracket assignment of
\* cmd_draw: teams is chat["teams"] itself, so the shuffle reorders it.
draw_chat(chat, seed) ==
    LET shuffled == shuffle(seed, chat.teams)
        rounds   == build_full_bracket(shuffled)
    IN  Assign([chat EXCEPT !.teams = shuffled], "bracket",
               Some([seed |-> seed, rounds |-> rounds]))

cmd_draw(chat_id, seed) ==
    LET db    == get_chat(load_db, chat_id)
        chat  == db[IntToStr(chat_id)]
        teams == chat.teams
    IN  /\ msg' = Sent("draw", chat_id, CommandText(<<"d", "r", "a", "w">>, <<>>))
        /\ IF get_chat_raises(load_db) THEN Raised("TypeError")
           ELSE IF "teams" \notin DOMAIN chat THEN Raised("KeyError")
           ELSE IF Len(teams) < 2
           THEN /\ reply' = [kind |-> "InsufficientTeams"]
                /\ UNCHANGED file
           ELSE LET chat2  == draw_chat(chat, seed)
                    rounds == chat2.bracket[1].rounds
                IN  /\ file' = save_db(SetChat(db, chat_id, chat2))
                    /\ reply' = [kind |-> "Drawn", seed |-> seed,
                                 text |-> render_pairs_text(rounds[1], 1)]

\* Variant: the handler saves the db it loaded.
cmd_pairs_saving(chat_id) ==
    LET db   == get_chat(load_db, chat_id)
        chat == db[IntToStr(chat_id)]
        br   == Get(chat, "bracket")
    IN  /\ msg' = Sent("pairs", chat_id, CommandText(<<"p", "a", "i", "r", "s">>, <<>>))
        /\ IF get_chat_raises(load_db) THEN Raised("TypeError")
           ELSE /\ reply' = IF br = None
                            THEN [kind |-> "NoBracketYet"]
                            ELSE [kind |-> "Pairs",
                                  text |-> render_pairs_text(br[1].rounds[1], 1)]
                /\ file' = save_db(db)

cmd_pairs(chat_id) ==
    LET db   == get_chat(load_db, chat_id)
        chat == db[IntToStr(chat_id)]
        br   == Get(chat, "bracket")
    IN  /\ msg' = Sent("pairs", chat_id, CommandText(<<"p", "a", "i", "r", "s">>, <<>>))
        /\ IF get_chat_raises(load_db) THEN Raised("TypeError")
           ELSE /\ reply' = IF br = None
                            THEN [kind |-> "NoBracketYet"]
                            ELSE [kind |-> "Pairs",
                                  text |-> render_pairs_text(br[1].rounds[1], 1)]
                /\ UNCHANGED file

\* MAX of cmd_bracket.
MAX == 3500

\* [text[i:i+size] for i in range(0, len(text), size)]
Chunks(text, size) ==
    [k \in 1..((Len(text) + size - 1) \div size) |->
        SubSeq(text, (k - 1) * size + 1,
               IF k * size < Len(text) THEN k * size ELSE Len(text))]

\* chat['name'] or fallback
NameOr(chat, fallback) ==
    IF chat.name = None \/ chat.name[1] = <<>> THEN fallback ELSE chat.name[1]

\* The Cyrillic word of cmd_bracket's title, one token per letter.
Turnir == <<"CYR_T", "CYR_u", "CYR_r", "CYR_n", "CYR_i", "CYR_r">>

\* The text cmd_bracket sends: the title, an empty line and the rounds.
bracket_text(chat, br) ==
    <<"*">> \o NameOr(chat, Turnir) \o <<"*", "\n", "\n">>
        \o render_bracket_tree(br.rounds)

cmd_bracket(chat_id) ==
    LET db   == get_chat(load_db, chat_id)
        chat == db[IntToStr(chat_id)]
        br   == Get(chat, "bracket")
    IN  /\ msg' = Sent("bracket", chat_id,
                       CommandText(<<"b", "r", "a", "c", "k", "e", "t">>, <<>>))
        /\ IF get_chat_raises(load_db) THEN Raised("TypeError")
           ELSE IF br = None
           THEN /\ reply' = [kind |-> "NoBracketYet"]
                /\ UNCHANGED file
           ELSE IF "name" \notin DOMAIN chat THEN Raised("KeyError")
           ELSE LET text == bracket_text(chat, br[1])
                IN  /\ reply' = [kind |-> "Bracket", chunks |-> Chunks(text, MAX)]
                    /\ UNCHANGED file

RECURSIVE export_rows_from_zero(_, _)
\* Variant: enumerate without start=1 for the matches.
export_rows_from_zero(rounds, r_idx) ==
    IF r_idx > Len(rounds) THEN <<>>
    ELSE [m_idx \in 1..Len(rounds[r_idx]) |->
              <<NatToStr(r_idx), NatToStr(m_idx - 1),
                rounds[r_idx][m_idx][1], rounds[r_idx][m_idx][2]>>]
            \o export_rows_from_zero(rounds, r_idx + 1)

RECURSIVE export_rows(_, _)
\* The rows cmd_export writes after the header, from round r_idx on.
export_rows(rounds, r_idx) ==
    IF r_idx > Len(rounds) THEN <<>>
    ELSE [m_idx \in 1..Len(rounds[r_idx]) |->
              <<NatToStr(r_idx), NatToStr(m_idx),
                rounds[r_idx][m_idx][1], rounds[r_idx][m_idx][2]>>]
            \o export_rows(rounds, r_idx + 1)

ExportHeader ==
    << <<"R", "o", "u", "n", "d">>, <<"M", "a", "t", "c", "h">>,
       <<"T", "e", "a", "m", " ", "A">>, <<"T", "e", "a", "m", " ", "B">> >>

cmd_export(chat_id) ==
    LET db   == get_chat(load_db, chat_id)
        chat == db[IntToStr(chat_id)]
        br   == Get(chat, "bracket")
    IN  /\ msg' = Sent("export", chat_id,
                       CommandText(<<"e", "x", "p", "o", "r", "t">>, <<>>))
        /\ IF get_chat_raises(load_db) THEN Raised("TypeError")
           ELSE IF br = None
           THEN /\ reply' = [kind |-> "NoBracketYet"]
                /\ UNCHANGED file
           ELSE IF "name" \notin DOMAIN chat THEN Raised("KeyError")
           ELSE /\ reply' =
                      [kind |-> "Export",
                       rows |-> <<ExportHeader>> \o export_rows(br[1].rounds, 1),
                       filename |->
                           Replace(NameOr(chat, <<"t", "o", "u", "r", "n", "a", "m", "e", "n", "t">>),
                                   " ", "_")
                             \o <<"_", "b", "r", "a", "c", "k", "e", "t", ".", "c", "s", "v">>]
                /\ UNCHANGED file

\* Variant: the bracket survives the reset.
reset_chat_keeping_bracket(chat) == Assign(chat, "teams", <<>>)

\* The chat's record after the two assignments of cmd_reset.
reset_chat(chat) == Assign(Assign(chat, "teams", <<>>), "bracket", None)

cmd_reset(chat_id) ==
    LET db    == get_chat(load_db, chat_id)
        chat  == db[IntToStr(chat_id)]
    IN  /\ msg' = Sent("reset", chat_id, CommandText(<<"r", "e", "s", "e", "t">>, <<>>))
        /\ IF get_chat_raises(load_db) THEN Raised("TypeError")
           ELSE /\ file' = save_db(SetChat(db, chat_id, reset_chat(chat)))
                /\ reply' = [kind |-> "Reset"]

-----------------------------------------------------------------------------
(* The bot: DATA_FILE does not exist yet and no update has been handled.   *)

Init ==
    /\ file = None
    /\ msg = None
    /\ reply = [kind |-> "Nothing"]
    /\ arg = [fn |-> "none"]
    /\ res = None
    /\ tasks = EmptyBag
    /\ saves = <<>>

\* The updates are handled one after the other, each handler to its end.
Next ==
    \/ \E c \in Chats : cmd_start(c) /\ UNCHANGED <<arg, res, tasks, saves>>
    \/ \E c \in Chats : cmd_help(c) /\ UNCHANGED <<arg, res, tasks, saves>>
    \/ \E c \in Chats, r \in NewRests :
          cmd_new(c, CommandText(NewCmd, r)) /\ UNCHANGED <<arg, res, tasks, saves>>
    \/ \E c \in Chats, r \in AddRests :
          cmd_add(c, CommandText(AddCmd, r)) /\ UNCHANGED <<arg, res, tasks, saves>>
    \/ \E c \in Chats : cmd_list(c) /\ UNCHANGED <<arg, res, tasks, saves>>
    \/ \E c \in Chats, seed \in Seeds : cmd_draw(c, seed) /\ UNCHANGED <<arg, res, tasks, saves>>
    \/ \E c \in Chats : cmd_pairs(c) /\ UNCHANGED <<arg, res, tasks, saves>>
    \/ \E c \in Chats : cmd_bracket(c) /\ UNCHANGED <<arg, res, tasks, saves>>
    \/ \E c \in Chats : cmd_export(c) /\ UNCHANGED <<arg, res, tasks, saves>>
    \/ \E c \in Chats : cmd_reset(c) /\ UNCHANGED <<arg, res, tasks, saves>>

Spec == Init /\ [][Next]_vars

-----------------------------------------------------------------------------
(* The bot started on a DATA_FILE that something else has written.         *)

\* The key of the record in the file found at the start.
FoundKey == IntToStr(CHOOSE c \in Chats : TRUE)

\* What the file may hold at the start: nothing (no file), text that is no
\* JSON, the array [], an object whose record has a name and nothing else.
DiskStates ==
    { None,
      Some(NotJson),
      Some(JsonArray),
      Some(JsonObject(FoundKey :> [name |-> None])) }

DiskInit ==
    /\ file \in DiskStates
    /\ msg = None
    /\ reply = [kind |-> "Nothing"]
    /\ arg = [fn |-> "none"]
    /\ res = None
    /\ tasks = EmptyBag
    /\ saves = <<>>

SpecDisk == DiskInit /\ [][Next]_vars

-----------------------------------------------------------------------------
(* The handlers as coroutines on the one event loop.  A handler runs from  *)
(* its start to its first await without giving the loop to another: that  *)
(* is load_db, the change and save_db, or the way to a rejection.  What    *)
(* is left of it are its replies, each an await at which the loop may run *)
(* another handler.                                                        *)

\* How many handlers that saved, or are in flight, there may be.
MaxUpdates == 3

ConcChats == {1, 2}

Update(cmd, chat_id, text) == [cmd |-> cmd, chat_id |-> chat_id, text |-> text]

\* The updates that arrive.
ConcUpdates ==
    { Update("start", 1, <<>>),
      Update("help", 2, <<>>),
      Update("new", 1, CommandText(NewCmd, <<" ", "C", "u", "p">>)),
      Update("add", 1, CommandText(AddCmd, <<" ", "a", ";", " ", "b">>)),
      Update("add", 2, CommandText(AddCmd, <<" ", "A", ";", " ", "c">>)),
      Update("list", 2, <<>>),
      Update("draw", 1, <<>>),
      Update("pairs", 1, <<>>),
      Update("bracket", 1, <<>>),
      Update("export", 1, <<>>),
      Update("reset", 1, <<>>) }

ConcInit ==
    /\ file = None
    /\ msg = None
    /\ reply = [kind |-> "Nothing"]
    /\ arg = [fn |-> "none"]
    /\ res = None
    /\ tasks = EmptyBag
    /\ saves = <<>>

\* A task at its start, and one at an await with `left` replies to go.
Created(u) == [upd |-> u, pc |-> "created", left |-> 0]

Awaiting(u, left) == [upd |-> u, pc |-> "awaiting", left |-> left]

\* The application makes a task of the handler coroutine for the update.
Dispatch(u) ==
    /\ BagCardinality(tasks) + Len(saves) < MaxUpdates
    /\ tasks' = tasks (+) SetToBag({Created(u)})
    /\ UNCHANGED <<file, msg, reply, arg, res, saves>>

\* The CommandHandler registered for the update's command; seed is what
\* random.randint gives cmd_draw.
handle(u, seed) ==
    \/ u.cmd = "start" /\ cmd_start(u.chat_id)
    \/ u.cmd = "help" /\ cmd_help(u.chat_id)
    \/ u.cmd = "new" /\ cmd_new(u.chat_id, u.text)
    \/ u.cmd = "add" /\ cmd_add(u.chat_id, u.text)
    \/ u.cmd = "list" /\ cmd_list(u.chat_id)
    \/ u.cmd = "draw" /\ cmd_draw(u.chat_id, seed)
    \/ u.cmd = "pairs" /\ cmd_pairs(u.chat_id)
    \/ u.cmd = "bracket" /\ cmd_bracket(u.chat_id)
    \/ u.cmd = "export" /\ cmd_export(u.chat_id)
    \/ u.cmd = "reset" /\ cmd_reset(u.chat_id)

\* The replies whose handler has called save_db before.
SavedKinds == {"Created", "Added", "Drawn", "Reset"}

\* The awaits of a handler: one per message it sends.
awaits(r) ==
    IF r.kind = "Raised" THEN 0
    ELSE IF r.kind = "Bracket" THEN Len(r.chunks)
    ELSE 1

\* The loop runs a task from its start to its first await.
Run(t) ==
    /\ t.pc = "created"
    /\ \E seed \in Seeds :
          /\ handle(t.upd, seed)
          /\ saves' = IF reply'.kind \in SavedKinds
                      THEN Append(saves,
                                  [upd |-> t.upd,
                                   seed |-> IF t.upd.cmd = "draw" THEN Some(seed)
                                            ELSE None])
                      ELSE saves
          /\ tasks' = IF awaits(reply') = 0 THEN tasks (-) SetToBag({t})
                      ELSE (tasks (-) SetToBag({t}))
                               (+) SetToBag({Awaiting(t.upd, awaits(reply'))})
    /\ UNCHANGED <<arg, res>>

\* A reply of a task is through; after the last one the handler returns.
Finish(t) ==
    /\ t.pc = "awaiting"
    /\ tasks' = IF t.left = 1 THEN tasks (-) SetToBag({t})
                ELSE (tasks (-) SetToBag({t}))
                         (+) SetToBag({Awaiting(t.upd, t.left - 1)})
    /\ UNCHANGED <<file, msg, reply, arg, res, saves>>

ConcNext ==
    \/ \E u \in ConcUpdates : Dispatch(u)
    \/ \E t \in BagToSet(tasks) : Run(t)
    \/ \E t \in BagToSet(tasks) : Finish(t)

SpecConc == ConcInit /\ [][ConcNext]_vars

-----------------------------------------------------------------------------
(* The pure functions on their own: one call of _normalize_teams,          *)
(* build_full_bracket or next_power_of_two, or of the text and slicing     *)
(* lines of cmd_bracket, on an argument drawn at Init.                     *)

\* Longest raw text given to _normalize_teams.
MaxRaw == 4

\* Longest team list given to build_full_bracket.
MaxSeedTeams == 8

\* Largest integer given to next_power_of_two.
MaxN == 40

\* How far below zero the integers given to next_power_of_two go.
MaxBelowZero == 3

\* Length of the long team names in the brackets given to cmd_bracket's
\* slicing.
LongNameLen == 1200

RawAlphabet == {"a", "A", "b", ";", ",", "\n", " "}

RawInputs == UNION { [1..k -> RawAlphabet] : k \in 0..MaxRaw }

TeamPool == { <<"a">>, BYE }

SeedTeamLists == UNION { [1..k -> TeamPool] : k \in 0..MaxSeedTeams }

\* Team lists as /add stores them: distinct names, some of them long.
LongTeamLists ==
    { << <<"a">>, <<"b">> >>,
      << Repeat("a", LongNameLen), Repeat("b", LongNameLen) >>,
      << Repeat("a", LongNameLen), Repeat("b", LongNameLen), <<"c">> >>,
      << Repeat("a", LongNameLen), Repeat("b", LongNameLen),
         Repeat("c", LongNameLen) >> }

\* Chat records with a bracket drawn from those lists.
ChunkChats ==
    { [name |-> nm, teams |-> t,
       bracket |-> Some([seed |-> SeedMin, rounds |-> build_full_bracket(t)])] :
          nm \in {None, Some(<<"C", "u", "p">>)}, t \in LongTeamLists }

FnArgs ==
    [fn : {"normalize"}, raw : RawInputs]
        \cup [fn : {"bracket"}, seed_teams : SeedTeamLists]
        \cup [fn : {"pow2"}, n : (0 - MaxBelowZero)..MaxN]
        \cup [fn : {"chunks"}, chat : ChunkChats]

FnInit ==
    /\ file = None
    /\ msg = None
    /\ reply = [kind |-> "Nothing"]
    /\ arg \in FnArgs
    /\ res = None
    /\ tasks = EmptyBag
    /\ saves = <<>>

call_normalize_teams ==
    /\ arg.fn = "normalize"
    /\ res = None
    /\ res' = Some(_normalize_teams(arg.raw))
    /\ UNCHANGED <<file, msg, reply, arg, tasks, saves>>

call_build_full_bracket ==
    /\ arg.fn = "bracket"
    /\ res = None
    /\ res' = Some(build_full_bracket(arg.seed_teams))
    /\ UNCHANGED <<file, msg, reply, arg, tasks, saves>>

call_next_power_of_two ==
    /\ arg.fn = "pow2"
    /\ res = None
    /\ res' = Some(next_power_of_two(arg.n))
    /\ UNCHANGED <<file, msg, reply, arg, tasks, saves>>

\* The text of cmd_bracket and its slices.
call_bracket_chunks ==
    /\ arg.fn = "chunks"
    /\ res = None
    /\ LET text == bracket_text(arg.chat, arg.chat.bracket[1])
       IN  res' = Some([text |-> text, chunks |-> Chunks(text, MAX)])
    /\ UNCHANGED <<file, msg, reply, arg, tasks, saves>>

FnNext ==
    \/ call_normalize_teams
    \/ call_build_full_bracket
    \/ call_next_power_of_two
    \/ call_bracket_chunks

SpecFn == FnInit /\ [][FnNext]_vars

-----------------------------------------------------------------------------
(* Properties of the pure functions, under SpecFn.                         *)

\* The value of one decimal digit.
DigitValue(ch) ==
    CASE ch = "0" -> 0 [] ch = "1" -> 1 [] ch = "2" -> 2 [] ch = "3" -> 3
      [] ch = "4" -> 4 [] ch = "5" -> 5 [] ch = "6" -> 6 [] ch = "7" -> 7
      [] ch = "8" -> 8 [] ch = "9" -> 9

RECURSIVE DecimalValue(_)
\* The number a string of decimal digits denotes.
DecimalValue(s) ==
    IF s = <<>> THEN 0
    ELSE 10 * DecimalValue(SubSeq(s, 1, Len(s) - 1)) + DigitValue(s[Len(s)])

\* p is a power of two: p >= 1 and every divisor of p above 1 is even.
IsPowerOfTwo(p) == p >= 1 /\ \A d \in 2..p : (p % d = 0) => (d % 2 = 0)

\* The smallest power of two that is >= n, for n >= 1.
SmallestPowerOfTwoFrom(n) ==
    CHOOSE p \in n..(2 * n) :
        IsPowerOfTwo(p) /\ \A q \in n..(p - 1) : ~IsPowerOfTwo(q)

\* ceil(a / 2)
CeilHalf(a) == (a + 1) \div 2

BracketBuilt == arg.fn = "bracket" /\ res # None

\* C5: in every bracket build_full_bracket returns, each round after the
\* first has exactly half as many pairs as the round before it and the last
\* round has exactly one pair; two teams give the single round [(t1, t2)].
C5_RoundsHalveToOne ==
    BracketBuilt =>
        LET rounds == res[1]
            teams  == arg.seed_teams
        IN  /\ Len(rounds) >= 1
            /\ \A k \in 1..(Len(rounds) - 1) : 2 * Len(rounds[k + 1]) = Len(rounds[k])
            /\ Len(rounds[Len(rounds)]) = 1
            /\ (Len(teams) = 2 => rounds = << << <<teams[1], teams[2]>> >> >>)

\* Five teams: rounds of 4, 2 and 1 pairs.
C5_Witness ==
    /\ BracketBuilt
    /\ Len(arg.seed_teams) = 5
    /\ Len(res[1]) = 3
    /\ Len(res[1][1]) = 4
    /\ Len(res[1][3]) = 1

\* C6: for n >= 1 teams the first round of build_full_bracket has
\* ceil(P / 2) pairs, P the smallest power of two >= n; next_power_of_two(n)
\* is 1 for n < 1 and that P otherwise.
C6_FirstRoundSize ==
    /\ BracketBuilt /\ Len(arg.seed_teams) >= 1 =>
           Len(res[1][1]) = CeilHalf(SmallestPowerOfTwoFrom(Len(arg.seed_teams)))
    /\ arg.fn = "pow2" /\ res # None =>
           res[1] = IF arg.n < 1 THEN 1 ELSE SmallestPowerOfTwoFrom(arg.n)

\* Four teams are already a power of two: two pairs, no padding.
C6_Witness ==
    /\ BracketBuilt
    /\ Len(arg.seed_teams) = 4
    /\ Len(res[1][1]) = 2

IsSeparator(ch) == ch \in {";", ",", "\n"}

\* s without its leading and trailing blanks.
Trimmed(s) ==
    LET inked == {k \in 1..Len(s) : s[k] \notin {" ", "\t"}}
    IN  IF inked = {} THEN <<>>
        ELSE SubSeq(s, CHOOSE a \in inked : \A k \in inked : a <= k,
                       CHOOSE b \in inked : \A k \in inked : k <= b)

\* The k-th smallest element of the set S of integers.
Nth(S, k) == CHOOSE x \in S : Cardinality({y \in S : y < x}) = k - 1

\* Where the pieces of raw start: at 1 and after every separator.
PieceStarts(raw) == {i \in 1..(Len(raw) + 1) : i = 1 \/ IsSeparator(raw[i - 1])}

\* Where the piece starting at i ends: before the next separator or at the
\* end of raw (i - 1 for an empty piece).
PieceEnd(raw, i) ==
    CHOOSE j \in (i - 1)..Len(raw) :
        /\ j = Len(raw) \/ IsSeparator(raw[j + 1])
        /\ \A k \in i..j : ~IsSeparator(raw[k])

\* The non-empty trimmed pieces of raw, in the order they stand in raw.
NamePieces(raw) ==
    LET starts == PieceStarts(raw)
        pieces == [k \in 1..Cardinality(starts) |->
                      LET i == Nth(starts, k)
                      IN  Trimmed(SubSeq(raw, i, PieceEnd(raw, i)))]
    IN  SelectSeq(pieces, LAMBDA p : p # <<>>)

\* The positions in names of the first spelling of each name.
FirstSpellings(names) ==
    {m \in 1..Len(names) : \A j \in 1..(m - 1) : Lower(names[j]) # Lower(names[m])}

Normalized == arg.fn = "normalize" /\ res # None

\* C10: _normalize_teams returns the non-empty trimmed pieces between
\* semicolons, commas and newlines, each case-insensitively distinct name
\* once, spelled as at its first occurrence, in first-seen order; the result
\* is empty exactly when there is no non-empty piece.
C10_NormalizeFirstSeen ==
    Normalized =>
        LET uniq   == res[1]
            names  == NamePieces(arg.raw)
            firsts == FirstSpellings(names)
        IN  /\ Len(uniq) = Cardinality(firsts)
            /\ \A k \in 1..Len(uniq) : uniq[k] = names[Nth(firsts, k)]
            /\ \A m \in 1..Len(names) :
                  Cardinality({k \in 1..Len(uniq) : Lower(uniq[k]) = Lower(names[m])}) = 1
            /\ (uniq = <<>>) <=> (names = <<>>)

\* "A;a" keeps the first spelling only.
C10_Witness ==
    /\ Normalized
    /\ arg.raw = <<" ", "A", ",", "a">>
    /\ res[1] = << <<"A">> >>

\* C14: the padding follows the seeded teams, so that each round-1 pair
\* that holds a padding "BYE" holds exactly one, in its second slot, opposite
\* the last seeded team; the pairs before it are the seeded teams two by two.
\* Stated for the team counts a draw accepts, two and more.
C14_ByeOppositeLastTeam ==
    BracketBuilt /\ Len(arg.seed_teams) >= 2 =>
        LET teams == arg.seed_teams
            n     == Len(teams)
            r1    == res[1][1]
        IN  \A k \in 1..Len(r1) :
                /\ 2 * k <= n => r1[k] = <<teams[2 * k - 1], teams[2 * k]>>
                /\ 2 * k > n => 2 * k - 1 = n /\ r1[k] = <<teams[n], BYE>>

WinnerWords == <<"W", "i", "n", "n", "e", "r", " ", "o", "f", " ", "R">>

\* s is a decimal numeral without a leading zero.
IsNumeral(s) ==
    /\ s # <<>>
    /\ \A i \in 1..Len(s) :
          s[i] \in {"0", "1", "2", "3", "4", "5", "6", "7", "8", "9"}
    /\ Len(s) > 1 => s[1] # "0"

\* s reads "Winner of R<r>M<m>".
RefersTo(s, r, m) ==
    /\ Len(s) > Len(WinnerWords)
    /\ SubSeq(s, 1, Len(WinnerWords)) = WinnerWords
    /\ \E i \in (Len(WinnerWords) + 1)..Len(s) :
          /\ s[i] = "M"
          /\ IsNumeral(SubSeq(s, Len(WinnerWords) + 1, i - 1))
          /\ IsNumeral(SubSeq(s, i + 1, Len(s)))
          /\ DecimalValue(SubSeq(s, Len(WinnerWords) + 1, i - 1)) = r
          /\ DecimalValue(SubSeq(s, i + 1, Len(s))) = m

\* C15: in every bracket the pair at position j of a round r >= 2 reads
\* "Winner of R{r-1}M{2j-1}" and "Winner of R{r-1}M{2j}", both matches exist
\* in round r-1, and each match of round r-1 is named by exactly one slot of
\* round r.
C15_PlaceholdersNamePreviousRound ==
    BracketBuilt =>
        LET rounds == res[1]
        IN  \A r \in 2..Len(rounds) :
                /\ \A j \in 1..Len(rounds[r]) :
                      /\ 2 * j <= Len(rounds[r - 1])
                      /\ RefersTo(rounds[r][j][1], r - 1, 2 * j - 1)
                      /\ RefersTo(rounds[r][j][2], r - 1, 2 * j)
                /\ \A m \in 1..Len(rounds[r - 1]) :
                      Cardinality({ slot \in (1..Len(rounds[r])) \X {1, 2} :
                          RefersTo(rounds[r][slot[1]][slot[2]], r - 1, m) }) = 1

\* Three teams: round 1 has two pairs and round 2 the single pair
\* Winner of R1M1 vs Winner of R1M2.
C15_Witness ==
    /\ BracketBuilt
    /\ Len(arg.seed_teams) = 3
    /\ Len(res[1][1]) = 2
    /\ res[1][2] = << << WinnerWords \o <<"1", "M", "1">>,
                         WinnerWords \o <<"1", "M", "2">> >> >>

RECURSIVE Concat(_)
\* The sequences of a sequence, one after the other.
Concat(ss) == IF ss = <<>> THEN <<>> ELSE Head(ss) \o Concat(Tail(ss))

\* First and last position of the line of text that position p lies in.
LineStart(text, p) ==
    CHOOSE i \in 1..p :
        /\ i = 1 \/ text[i - 1] = "\n"
        /\ \A k \in i..(p - 1) : text[k] # "\n"

LineEnd(text, p) ==
    CHOOSE i \in p..Len(text) :
        /\ i = Len(text) \/ text[i + 1] = "\n"
        /\ \A k \in (p + 1)..i : text[k] # "\n"

\* C16: the chunks cmd_bracket sends have at most 3500 characters each,
\* give the text back when put one after the other, and where one chunk ends
\* and the next begins inside a line, that line has 3500 characters or more.
C16_ChunksKeepLines ==
    arg.fn = "chunks" /\ res # None =>
        LET text   == res[1].text
            chunks == res[1].chunks
        IN  /\ \A k \in 1..Len(chunks) : Len(chunks[k]) <= 3500
            /\ Concat(chunks) = text
            /\ \A k \in 1..(Len(chunks) - 1) :
                  LET b == Len(Concat(SubSeq(chunks, 1, k)))
                  IN  text[b] # "\n" /\ text[b + 1] # "\n" =>
                          LineEnd(text, b) - LineStart(text, b) + 1 >= 3500

-----------------------------------------------------------------------------
(* Properties of the bot, under Spec.                                      *)

\* The record persisted for a chat, the default of get_chat when the file
\* holds none.
StoredIn(f, chat_id) ==
    IF f = None \/ f[1].json # "object"
           \/ IntToStr(chat_id) \notin DOMAIN f[1].members
    THEN NewChat
    ELSE f[1].members[IntToStr(chat_id)]

Stored(chat_id) == StoredIn(file, chat_id)

\* The update just handled is cmd with the reply kind.
Handled(cmd, kind) == msg # None /\ msg[1].cmd = cmd /\ reply.kind = kind

\* C1: a successful draw persists the team list it found, element for
\* element in the same order, and the same name.
C1_DrawKeepsTeams ==
    [][ Handled("draw", "Drawn")' =>
            LET c == msg'[1].chat_id
            IN  /\ StoredIn(file', c).teams = Stored(c).teams
                /\ StoredIn(file', c).name = Stored(c).name ]_vars

\* C2: the stored team list of every chat has no two entries that are equal
\* once lower-cased.
C2_NoCaseInsensitiveDuplicates ==
    \A c \in Chats :
        LET teams == Stored(c).teams
        IN  \A i, j \in 1..Len(teams) : i < j => Lower(teams[i]) # Lower(teams[j])

\* "/add A; c" onto a list holding "a": only "c" is appended.
C2_Witness ==
    /\ Handled("add", "Added")
    /\ msg[1].text = CommandText(AddCmd, <<" ", "A", ";", " ", "c">>)
    /\ \E c \in Chats :
          \E i, j \in 1..Len(Stored(c).teams) :
              Stored(c).teams[i] = <<"a">> /\ Stored(c).teams[j] = <<"c">>

RECURSIVE GrowAppended(_, _)
\* The incoming names appended when each is matched, lower-cased, against
\* the list as it grows.
GrowAppended(list, incoming) ==
    IF incoming = <<>> THEN <<>>
    ELSE LET t     == Head(incoming)
             known == \E i \in 1..Len(list) : Lower(list[i]) = Lower(t)
         IN  IF known THEN GrowAppended(list, Tail(incoming))
             ELSE <<t>> \o GrowAppended(Append(list, t), Tail(incoming))

\* after is before with the new names of incoming, and told reports it.
AppendsNewNames(before, after, incoming, told) ==
    LET appended == GrowAppended(before, incoming)
    IN  /\ incoming # <<>>
        /\ after = before \o appended
        /\ SubSeq(after, 1, Len(before)) = before
        /\ told.added = Len(appended)
        /\ told.total = Len(after)

\* C3: an accepted add appends, in incoming order, exactly the incoming
\* names without a case-insensitive match in the list as it grows; the list
\* before is a prefix of the list after, and the count reported is the
\* number of names appended.
C3_AddAppendsNewNames ==
    [][ Handled("add", "Added")' =>
            LET c == msg'[1].chat_id
            IN  AppendsNewNames(StoredIn(file, c).teams, StoredIn(file', c).teams,
                                NamePieces(PartitionTail(msg'[1].text)), reply') ]_vars

\* "/add a; b" then "/add A; c": ["a", "b", "c"], one name added.
C3_Witness ==
    /\ Handled("add", "Added")
    /\ msg[1].text = CommandText(AddCmd, <<" ", "A", ";", " ", "c">>)
    /\ reply.added = 1
    /\ \E c \in Chats : Stored(c).teams = << <<"a">>, <<"b">>, <<"c">> >>

Rejections == {"Usage", "EmptyInput", "InsufficientTeams", "NoBracketYet"}

\* C4: a rejected add (no usable name), a rejected draw (fewer than two
\* teams) and a rejected pairs, bracket or export (no bracket) leave the
\* persisted file exactly as it was, without a record for a new chat.
C4_RejectionsChangeNothing ==
    [][ reply'.kind \in Rejections => file' = file ]_vars

\* A chat nobody has written for asks for its pairs: still no file.
C4_Witness ==
    /\ Handled("pairs", "NoBracketYet")
    /\ file = None

ClearedIn(f, chat_id) ==
    StoredIn(f, chat_id).teams = <<>> /\ StoredIn(f, chat_id).bracket = None

Cleared(chat_id) == ClearedIn(file, chat_id)

\* C7: reset empties teams, removes the bracket and keeps the name; from
\* then on, until an add is accepted, every command leaves the chat so,
\* list reports an empty list and pairs, bracket and export are rejected
\* for want of a bracket.
C7_ResetClears ==
    [][ LET c == msg'[1].chat_id
        IN  /\ Handled("reset", "Reset")' =>
                  ClearedIn(file', c) /\ StoredIn(file', c).name = Stored(c).name
            /\ Cleared(c) /\ reply'.kind \notin {"Added", "Drawn"} => ClearedIn(file', c)
            /\ Cleared(c) /\ msg'[1].cmd = "list" => reply'.kind = "EmptyList"
            /\ Cleared(c) /\ msg'[1].cmd \in {"pairs", "bracket", "export"} =>
                  reply'.kind = "NoBracketYet"
            /\ Cleared(c) /\ msg'[1].cmd = "draw" => reply'.kind = "InsufficientTeams" ]_vars

\* A named tournament has been reset: it is empty and still named.
C7_Witness ==
    /\ Handled("reset", "Reset")
    /\ \E c \in Chats :
          /\ msg[1].chat_id = c
          /\ Cleared(c)
          /\ Stored(c).name = Some(<<"C", "u", "p", " ", "1">>)

\* C8: the stored bracket changes only in a successful draw, which stores
\* the seed and the rounds it announces, and in new and reset, which remove
\* it; every other command leaves seed and rounds as they were.
C8_BracketChangesOnlyByDrawNewReset ==
    [][ \A c \in Chats :
            LET old == Stored(c).bracket
                now == StoredIn(file', c).bracket
            IN  /\ now # old =>
                      /\ c = msg'[1].chat_id
                      /\ reply'.kind \in {"Drawn", "Created", "Reset"}
                /\ c = msg'[1].chat_id /\ reply'.kind = "Drawn" =>
                      /\ now # None
                      /\ now[1].seed = reply'.seed
                      /\ render_pairs_text(now[1].rounds[1], 1) = reply'.text
                /\ c = msg'[1].chat_id /\ reply'.kind \in {"Created", "Reset"} =>
                      now = None ]_vars

\* Teams were added after a draw: the bracket of the draw is still there.
C8_Witness ==
    /\ Handled("add", "Added")
    /\ reply.added >= 1
    /\ \E c \in Chats : msg[1].chat_id = c /\ Stored(c).bracket # None

\* C9: the seed stored by a draw is one of the six-digit seeds, is the seed
\* announced, and shuffling the team list found by the draw with it and
\* building the bracket again gives the rounds stored.
C9_DrawReproducibleFromSeed ==
    [][ Handled("draw", "Drawn")' =>
            LET c      == msg'[1].chat_id
                before == Stored(c).teams
                br     == StoredIn(file', c).bracket[1]
            IN  /\ br.seed \in SeedMin..SeedMax
                /\ br.seed = reply'.seed
                /\ br.rounds = build_full_bracket(shuffle(br.seed, before)) ]_vars

\* Three teams drawn with the largest seed: the last pair holds the BYE.
C9_Witness ==
    /\ Handled("draw", "Drawn")
    /\ \E c \in Chats :
          /\ msg[1].chat_id = c
          /\ Len(Stored(c).teams) = 3
          /\ Stored(c).bracket[1].seed = SeedMax
          /\ Stored(c).bracket[1].rounds[1][2][2] = BYE

\* The file f holds a record for the chat.
HasRecordIn(f, chat_id) ==
    f # None /\ f[1].json = "object" /\ IntToStr(chat_id) \in DOMAIN f[1].members

\* s without its blanks.
Inked(s) == SelectSeq(s, LAMBDA ch : ch \notin {" ", "\t", "\n"})

\* C12 as claimed: every persisted record has a name, and it is not empty.
C12_NameSetAndNonEmpty ==
    \A c \in Chats :
        HasRecordIn(file, c) => Stored(c).name # None /\ Stored(c).name[1] # <<>>

\* C12, amended: the name of a persisted record is unset or a non-empty
\* string and, once set, stays set; new sets it to the words given, joined
\* by single blanks, or to the non-empty default label when none is given.
C12_NameUnsetOrNonEmpty ==
    [][ \A c \in Chats :
            LET old == StoredIn(file, c).name
                now == StoredIn(file', c).name
            IN  /\ now = None \/ now[1] # <<>>
                /\ old # None => now # None
                /\ (c = msg'[1].chat_id /\ reply'.kind = "Created") =>
                      LET given == SubSeq(msg'[1].text, Len(NewCmd) + 2, Len(msg'[1].text))
                      IN  /\ now # None
                          /\ now[1] = reply'.name
                          /\ now[1][1] # " " /\ now[1][Len(now[1])] # " "
                          /\ Inked(given) = <<>> => now[1] = DefaultName
                          /\ Inked(given) # <<>> =>
                                /\ Inked(now[1]) = Inked(given)
                                /\ Len(now[1]) = Len(Inked(given))
                                      + Len(SplitWS(given)) - 1 ]_vars

\* Teams were added in a chat where no tournament was created: the record
\* is persisted with its name unset.
C12_Witness ==
    /\ Handled("add", "Added")
    /\ \E c \in Chats :
          /\ msg[1].chat_id = c
          /\ HasRecordIn(file, c)
          /\ Stored(c).name = None

RECURSIVE PairsBefore(_, _)
\* The number of pairs in the rounds before round r.
PairsBefore(rounds, r) ==
    IF r <= 1 THEN 0 ELSE PairsBefore(rounds, r - 1) + Len(rounds[r - 1])

\* C13: the export of a stored bracket has, after the header, one row per
\* pair, round after round and match after match, numbered from 1 without
\* gaps, each row with the two slots of its pair.
C13_ExportRowPerPair ==
    Handled("export", "Export") =>
        LET rounds == Stored(msg[1].chat_id).bracket[1].rounds
            rows   == Tail(reply.rows)
        IN  /\ Len(rows) = PairsBefore(rounds, Len(rounds) + 1)
            /\ \A r \in 1..Len(rounds) :
                  \A m \in 1..Len(rounds[r]) :
                      LET row == rows[PairsBefore(rounds, r) + m]
                      IN  /\ DecimalValue(row[1]) = r
                          /\ DecimalValue(row[2]) = m
                          /\ row[3] = rounds[r][m][1]
                          /\ row[4] = rounds[r][m][2]

\* A bracket of two rounds is exported: the header and three rows.
C13_Witness ==
    /\ Handled("export", "Export")
    /\ Len(Stored(msg[1].chat_id).bracket[1].rounds) = 2
    /\ Len(reply.rows) = 4

\* The slots of a round, pair after pair.
SlotsOf(round) == [s \in 1..(2 * Len(round)) |-> round[(s + 1) \div 2][2 - (s % 2)]]

\* C17: right after a successful draw every stored team name is in exactly
\* one slot of round 1 and the slots that read "BYE" are as many as the
\* padding, the smallest power of two >= n less n.
C17_RoundOneIsTeamsPlusPadding ==
    Handled("draw", "Drawn") =>
        LET chat  == Stored(msg[1].chat_id)
            teams == chat.teams
            n     == Len(teams)
            slots == SlotsOf(chat.bracket[1].rounds[1])
        IN  /\ \A i \in 1..n :
                  Cardinality({s \in 1..Len(slots) : slots[s] = teams[i]}) = 1
            /\ Cardinality({s \in 1..Len(slots) : slots[s] = BYE})
                  = SmallestPowerOfTwoFrom(n) - n

\* The values a sequence holds.
Range(s) == {s[i] : i \in 1..Len(s)}

\* The round-1 slots of the bracket stored for a chat.
RoundOneSlots(chat_id) == Range(SlotsOf(Stored(chat_id).bracket[1].rounds[1]))

\* C18 as claimed: whenever a bracket is stored, the names in its round 1,
\* padding aside, are exactly the names of the stored teams.
C18_BracketShowsStoredTeams ==
    \A c \in Chats :
        Stored(c).bracket # None =>
            RoundOneSlots(c) \ {BYE} = Range(Stored(c).teams) \ {BYE}

\* C18: whenever a bracket is stored, each slot of its round 1 reads "BYE"
\* or the name of a stored team, and right after a successful draw every
\* stored team name is in a slot of round 1; teams added since the draw are
\* stored without a slot.
C18_BracketNamesAreStored ==
    /\ \A c \in Chats :
          Stored(c).bracket # None =>
              RoundOneSlots(c) \subseteq Range(Stored(c).teams) \cup {BYE}
    /\ Handled("draw", "Drawn") =>
          Range(Stored(msg[1].chat_id).teams) \subseteq RoundOneSlots(msg[1].chat_id)

\* An add after a draw: the team just stored has no slot in the bracket.
C18_Witness ==
    /\ Handled("add", "Added")
    /\ reply.added >= 1
    /\ Stored(msg[1].chat_id).bracket # None
    /\ \E t \in Range(Stored(msg[1].chat_id).teams) :
          t \notin RoundOneSlots(msg[1].chat_id)

-----------------------------------------------------------------------------
(* Properties of the bot on a file it has not written, under SpecDisk.     *)

\* C11: whatever the file holds at the start, no handler raises: every
\* command is answered.
C11_NoCommandFails == reply.kind # "Raised"

-----------------------------------------------------------------------------
(* Properties of the handlers in flight together, under SpecConc.          *)

\* The store after one more saved update: the record of its chat, the
\* default one if the store has none, changed as its command changes it.
ApplySaved(store, e) ==
    LET u   == e.upd
        key == IntToStr(u.chat_id)
        old == IF key \in DOMAIN store THEN store[key] ELSE NewChat
        rec == CASE u.cmd = "new" -> new_chat(old, new_name(u.text))
                 [] u.cmd = "add" ->
                        add_chat(old, _normalize_teams(PartitionTail(u.text)))
                 [] u.cmd = "draw" -> draw_chat(old, e.seed[1])
                 [] u.cmd = "reset" -> reset_chat(old)
    IN  [k \in DOMAIN store \cup {key} |-> IF k = key THEN rec ELSE store[k]]

RECURSIVE Replay(_)
\* The store after the saved updates of a log, one after the other, from
\* the empty store.
Replay(log) ==
    IF log = <<>> THEN EmptyDict
    ELSE ApplySaved(Replay(SubSeq(log, 1, Len(log) - 1)), log[Len(log)])

\* C19: with handlers in flight together, the file holds what the updates
\* whose handlers saved give when applied one after the other in the order
\* of their saves, each to the result of the one before: no save is undone
\* by a handler that loaded before it, for the same chat or another.
C19_StoreIsSavesInOrder ==
    file = IF saves = <<>> THEN None ELSE Some(JsonObject(Replay(saves)))

\* Two handlers, one per chat, are at their reply at the same time, both
\* after their save, and the file holds the teams of both chats.
C19_Witness ==
    /\ \E t1, t2 \in BagToSet(tasks) :
          /\ t1.pc = "awaiting" /\ t2.pc = "awaiting"
          /\ t1.upd.cmd = "add" /\ t2.upd.cmd = "add"
          /\ t1.upd.chat_id = 1 /\ t2.upd.chat_id = 2
    /\ Len(saves) = 2
    /\ \A c \in ConcChats : Len(StoredIn(file, c).teams) = 2

=============================================================================
